---- MODULE Spec2Model ----
(***************************************************************************)
(* Author / Magazine / Article object graph of lib/classes/many_to_many.py *)
(*                                                                         *)
(* Python values are records tagged with their type.  Instances of the     *)
(* three classes are references (class, id) into one heap per class, so    *)
(* that == on instances is identity, as it is for classes that define no   *)
(* __eq__.  Article.all and Magazine.all are the two class attributes.     *)
(* `last` records the method called by the last step and whether it        *)
(* raised.  The constructors and the property setters are the actions;     *)
(* the queries (articles(), magazines(), topic_areas(), contributors(),    *)
(* article_titles(), contributing_authors(), top_publisher()) only read    *)
(* the state and are operators over it.  A query that returns              *)
(* list(set(...)) is the set of the lists it can return.                   *)
(***************************************************************************)
EXTENDS Integers, Sequences, FiniteSets, TLC

VARIABLES
    Author_heap,    \* Author instances, in order of construction: [_name]
    Magazine_heap,  \* Magazine instances: [_name, _category]
    Article_heap,   \* Article instances: [_author, _magazine, _title]
    Article_all,    \* Article.all: references to Article instances
    Magazine_all,   \* Magazine.all: references to Magazine instances
    last            \* [op, raised]: the method the last step called, and whether it raised

vars == <<Author_heap, Magazine_heap, Article_heap, Article_all, Magazine_all, last>>

(* Bounds of the model: the number of live instances of the three classes, *)
(* under Spec (every validation boundary among the arguments) and under    *)
(* SpecGraph (larger object graphs, fewer distinct argument values).       *)
MaxObjects == 4

MaxGraphObjects == 6

(***************************************************************************)
(* Python values                                                           *)
(***************************************************************************)
None == [type |-> "NoneType"]

Str(s) == [type |-> "str", s |-> s]

Num(n) == [type |-> "int", n |-> n]

List(items) == [type |-> "list", items |-> items]

Ref(cls, id) == [type |-> cls, id |-> id]

isinstance(value, cls) == value.type = cls

len(value) == Len(value.s)

(* One string of each length the validations distinguish. *)
S0 == Str("")
S1 == Str("M")
S1b == Str("T")
S2 == Str("OK")
S4 == Str("Hiya")
S5 == Str("Hello")
S16 == Str("0123456789abcdef")
S17 == Str("0123456789abcdefg")
S50 == Str("01234567890123456789012345678901234567890123456789")
S51 == Str("012345678901234567890123456789012345678901234567890")

AuthorRefs == {Ref("Author", i) : i \in 1..Len(Author_heap)}

MagazineRefs == {Ref("Magazine", i) : i \in 1..Len(Magazine_heap)}

ArticleRefs == {Ref("Article", i) : i \in 1..Len(Article_heap)}

NumObjects == Len(Author_heap) + Len(Magazine_heap) + Len(Article_heap)

(* Arguments the callers pass under Spec: for each parameter, values of   *)
(* the wrong type and strings on both sides of each length boundary.  The  *)
(* value that is not an Author is a Magazine once there is one, and the    *)
(* value that is not a Magazine is an Author once there is one.            *)
AuthorArgs == AuthorRefs \cup (IF Magazine_heap # <<>> THEN {Ref("Magazine", 1)} ELSE {None})

MagazineArgs == MagazineRefs \cup (IF Author_heap # <<>> THEN {Ref("Author", 1)} ELSE {S5})

TitleArgs == {S4, S5, S50, S51, Num(7)}

AuthorNameArgs == {S0, S1, Num(7)}

MagazineNameArgs == {S1, S2, S16, S17, None}

CategoryArgs == {S0, S1b, S5, None}

(* Arguments the callers pass under SpecGraph. *)
GraphAuthorArgs == AuthorRefs \cup {None}

GraphMagazineArgs == MagazineRefs \cup {None}

GraphTitleArgs == {S4, S5}

GraphAuthorNameArgs == {S0, S1}

GraphMagazineNameArgs == {S1, S2}

GraphCategoryArgs == {S0, S1b, S5}

Raise(op) == last' = [op |-> op, raised |-> TRUE]

Return(op) == last' = [op |-> op, raised |-> FALSE]

(***************************************************************************)
(* Built-ins used by the queries                                           *)
(***************************************************************************)
Range(seq) == {seq[i] : i \in 1..Len(seq)}

(* list(set(...)): the elements of the set, each once, in an order the     *)
(* language does not fix.  The possible results.                           *)
list_of_set(S) ==
    {l \in [1..Cardinality(S) -> S] : \A i, j \in 1..Cardinality(S) : l[i] = l[j] => i = j}

(* A dict is the sequence of its items in insertion order. *)
dict_has(d, key) == \E i \in 1..Len(d) : d[i].key = key

dict_get(d, key, default) ==
    IF dict_has(d, key) THEN d[CHOOSE i \in 1..Len(d) : d[i].key = key].value ELSE default

dict_set(d, key, value) ==
    IF dict_has(d, key)
    THEN [i \in 1..Len(d) |-> IF d[i].key = key THEN [key |-> key, value |-> value] ELSE d[i]]
    ELSE Append(d, [key |-> key, value |-> value])

(* Mutant: the scan keeps the smaller value. *)
RECURSIVE min_by_value(_, _)
min_by_value(d, n) ==
    IF n = 1 THEN d[1]
    ELSE LET best == min_by_value(d, n - 1)
         IN IF d[n].value < best.value THEN d[n] ELSE best

(* max(d, key=d.get) over the first n keys of a non-empty dict: the first  *)
(* key, in iteration order, whose value no other key's value exceeds.      *)
RECURSIVE max_by_value(_, _)
max_by_value(d, n) ==
    IF n = 1 THEN d[1]
    ELSE LET best == max_by_value(d, n - 1)
         IN IF d[n].value > best.value THEN d[n] ELSE best

(***************************************************************************)
(* class Article                                                           *)
(***************************************************************************)
(* Mutant: the lower bound of the title's length is 4. *)
Article__init__TitleFrom4(author, magazine, title) ==
    IF ~isinstance(author, "Author") THEN
        Raise("Article.__init__")
        /\ UNCHANGED <<Author_heap, Magazine_heap, Article_heap, Article_all, Magazine_all>>
    ELSE IF ~isinstance(magazine, "Magazine") THEN
        Raise("Article.__init__")
        /\ UNCHANGED <<Author_heap, Magazine_heap, Article_heap, Article_all, Magazine_all>>
    ELSE IF ~isinstance(title, "str") THEN
        Raise("Article.__init__")
        /\ UNCHANGED <<Author_heap, Magazine_heap, Article_heap, Article_all, Magazine_all>>
    ELSE IF ~(4 <= len(title) /\ len(title) <= 50) THEN
        Raise("Article.__init__")
        /\ UNCHANGED <<Author_heap, Magazine_heap, Article_heap, Article_all, Magazine_all>>
    ELSE
        /\ Article_heap' = Append(Article_heap,
               [_author |-> author, _magazine |-> magazine, _title |-> title])
        /\ Article_all' = Append(Article_all, Ref("Article", Len(Article_heap) + 1))
        /\ Return("Article.__init__")
        /\ UNCHANGED <<Author_heap, Magazine_heap, Magazine_all>>

Article__init__(author, magazine, title) ==
    IF ~isinstance(author, "Author") THEN
        Raise("Article.__init__")
        /\ UNCHANGED <<Author_heap, Magazine_heap, Article_heap, Article_all, Magazine_all>>
    ELSE IF ~isinstance(magazine, "Magazine") THEN
        Raise("Article.__init__")
        /\ UNCHANGED <<Author_heap, Magazine_heap, Article_heap, Article_all, Magazine_all>>
    ELSE IF ~isinstance(title, "str") THEN
        Raise("Article.__init__")
        /\ UNCHANGED <<Author_heap, Magazine_heap, Article_heap, Article_all, Magazine_all>>
    ELSE IF ~(5 <= len(title) /\ len(title) <= 50) THEN
        Raise("Article.__init__")
        /\ UNCHANGED <<Author_heap, Magazine_heap, Article_heap, Article_all, Magazine_all>>
    ELSE
        /\ Article_heap' = Append(Article_heap,
               [_author |-> author, _magazine |-> magazine, _title |-> title])
        /\ Article_all' = Append(Article_all, Ref("Article", Len(Article_heap) + 1))
        /\ Return("Article.__init__")
        /\ UNCHANGED <<Author_heap, Magazine_heap, Magazine_all>>

(* Mutant: the title setter stores the value. *)
Article_title_setterStores(self, value) ==
    /\ Article_heap' = [Article_heap EXCEPT ![self.id]._title = value]
    /\ Return("Article.title.setter")
    /\ UNCHANGED <<Author_heap, Magazine_heap, Article_all, Magazine_all>>

(* title.setter: `pass` *)
Article_title_setter(self, value) ==
    /\ Return("Article.title.setter")
    /\ UNCHANGED <<Author_heap, Magazine_heap, Article_heap, Article_all, Magazine_all>>

Article_author_setter(self, value) ==
    IF ~isinstance(value, "Author") THEN
        Raise("Article.author.setter")
        /\ UNCHANGED <<Author_heap, Magazine_heap, Article_heap, Article_all, Magazine_all>>
    ELSE
        /\ Article_heap' = [Article_heap EXCEPT ![self.id]._author = value]
        /\ Return("Article.author.setter")
        /\ UNCHANGED <<Author_heap, Magazine_heap, Article_all, Magazine_all>>

(* Mutant: the magazine setter stores the value unchecked. *)
Article_magazine_setterUnchecked(self, value) ==
    /\ Article_heap' = [Article_heap EXCEPT ![self.id]._magazine = value]
    /\ Return("Article.magazine.setter")
    /\ UNCHANGED <<Author_heap, Magazine_heap, Article_all, Magazine_all>>

Article_magazine_setter(self, value) ==
    IF ~isinstance(value, "Magazine") THEN
        Raise("Article.magazine.setter")
        /\ UNCHANGED <<Author_heap, Magazine_heap, Article_heap, Article_all, Magazine_all>>
    ELSE
        /\ Article_heap' = [Article_heap EXCEPT ![self.id]._magazine = value]
        /\ Return("Article.magazine.setter")
        /\ UNCHANGED <<Author_heap, Magazine_heap, Article_all, Magazine_all>>

(***************************************************************************)
(* class Author                                                            *)
(***************************************************************************)
Author__init__(name) ==
    IF ~isinstance(name, "str") THEN
        Raise("Author.__init__")
        /\ UNCHANGED <<Author_heap, Magazine_heap, Article_heap, Article_all, Magazine_all>>
    ELSE IF len(name) = 0 THEN
        Raise("Author.__init__")
        /\ UNCHANGED <<Author_heap, Magazine_heap, Article_heap, Article_all, Magazine_all>>
    ELSE
        /\ Author_heap' = Append(Author_heap, [_name |-> name])
        /\ Return("Author.__init__")
        /\ UNCHANGED <<Magazine_heap, Article_heap, Article_all, Magazine_all>>

(* name.setter: `pass` *)
Author_name_setter(self, value) ==
    /\ Return("Author.name.setter")
    /\ UNCHANGED <<Author_heap, Magazine_heap, Article_heap, Article_all, Magazine_all>>

(* Mutant: articles() of an author filters on the magazine. *)
Author_articlesByMagazine(self) ==
    SelectSeq(Article_all, LAMBDA article : Article_heap[article.id]._magazine = self)

(* [article for article in Article.all if article.author == self] *)
Author_articles(self) ==
    SelectSeq(Article_all, LAMBDA article : Article_heap[article.id]._author = self)

(* return Article(self, magazine, title) *)
Author_add_article(self, magazine, title) ==
    Article__init__(self, magazine, title)

(* list(set(article.magazine for article in self.articles())) *)
Author_magazines(self) ==
    {List(l) : l \in list_of_set({Article_heap[article.id]._magazine :
                                      article \in Range(Author_articles(self))})}

(* Mutant: the categories are listed without set(). *)
Author_topic_areasNoSet(self) ==
    LET articles == Author_articles(self)
    IN IF articles = <<>> THEN {None}
       ELSE {List([i \in 1..Len(articles) |->
                Magazine_heap[Article_heap[articles[i].id]._magazine.id]._category])}

(* The possible results of topic_areas(). *)
Author_topic_areas(self) ==
    LET articles == Author_articles(self)
    IN IF articles = <<>> THEN {None}
       ELSE {List(l) : l \in list_of_set(
                {Magazine_heap[Article_heap[article.id]._magazine.id]._category :
                     article \in Range(articles)})}

(***************************************************************************)
(* class Magazine                                                          *)
(***************************************************************************)
(* Mutant: the new magazine is put at the front of Magazine.all. *)
Magazine__init__Prepends(name, category) ==
    IF ~isinstance(name, "str") THEN
        Raise("Magazine.__init__")
        /\ UNCHANGED <<Author_heap, Magazine_heap, Article_heap, Article_all, Magazine_all>>
    ELSE IF ~(2 <= len(name) /\ len(name) <= 16) THEN
        Raise("Magazine.__init__")
        /\ UNCHANGED <<Author_heap, Magazine_heap, Article_heap, Article_all, Magazine_all>>
    ELSE IF ~isinstance(category, "str") THEN
        Raise("Magazine.__init__")
        /\ UNCHANGED <<Author_heap, Magazine_heap, Article_heap, Article_all, Magazine_all>>
    ELSE IF len(category) = 0 THEN
        Raise("Magazine.__init__")
        /\ UNCHANGED <<Author_heap, Magazine_heap, Article_heap, Article_all, Magazine_all>>
    ELSE
        /\ Magazine_heap' = Append(Magazine_heap, [_name |-> name, _category |-> category])
        /\ Magazine_all' = <<Ref("Magazine", Len(Magazine_heap) + 1)>> \o Magazine_all
        /\ Return("Magazine.__init__")
        /\ UNCHANGED <<Author_heap, Article_heap, Article_all>>

Magazine__init__(name, category) ==
    IF ~isinstance(name, "str") THEN
        Raise("Magazine.__init__")
        /\ UNCHANGED <<Author_heap, Magazine_heap, Article_heap, Article_all, Magazine_all>>
    ELSE IF ~(2 <= len(name) /\ len(name) <= 16) THEN
        Raise("Magazine.__init__")
        /\ UNCHANGED <<Author_heap, Magazine_heap, Article_heap, Article_all, Magazine_all>>
    ELSE IF ~isinstance(category, "str") THEN
        Raise("Magazine.__init__")
        /\ UNCHANGED <<Author_heap, Magazine_heap, Article_heap, Article_all, Magazine_all>>
    ELSE IF len(category) = 0 THEN
        Raise("Magazine.__init__")
        /\ UNCHANGED <<Author_heap, Magazine_heap, Article_heap, Article_all, Magazine_all>>
    ELSE
        /\ Magazine_heap' = Append(Magazine_heap, [_name |-> name, _category |-> category])
        /\ Magazine_all' = Append(Magazine_all, Ref("Magazine", Len(Magazine_heap) + 1))
        /\ Return("Magazine.__init__")
        /\ UNCHANGED <<Author_heap, Article_heap, Article_all>>

(* Mutant: the name setter accepts a name of one character. *)
Magazine_name_setterFrom1(self, value) ==
    /\ IF isinstance(value, "str") /\ 1 <= len(value) /\ len(value) <= 16
       THEN Magazine_heap' = [Magazine_heap EXCEPT ![self.id]._name = value]
       ELSE UNCHANGED Magazine_heap
    /\ Return("Magazine.name.setter")
    /\ UNCHANGED <<Author_heap, Article_heap, Article_all, Magazine_all>>

Magazine_name_setter(self, value) ==
    /\ IF isinstance(value, "str") /\ 2 <= len(value) /\ len(value) <= 16
       THEN Magazine_heap' = [Magazine_heap EXCEPT ![self.id]._name = value]
       ELSE UNCHANGED Magazine_heap
    /\ Return("Magazine.name.setter")
    /\ UNCHANGED <<Author_heap, Article_heap, Article_all, Magazine_all>>

Magazine_category_setter(self, value) ==
    /\ IF isinstance(value, "str") /\ len(value) > 0
       THEN Magazine_heap' = [Magazine_heap EXCEPT ![self.id]._category = value]
       ELSE UNCHANGED Magazine_heap
    /\ Return("Magazine.category.setter")
    /\ UNCHANGED <<Author_heap, Article_heap, Article_all, Magazine_all>>

(* Mutant: articles() of a magazine compares the magazines' names. *)
Magazine_articlesByName(self) ==
    SelectSeq(Article_all, LAMBDA article :
        Magazine_heap[Article_heap[article.id]._magazine.id]._name = Magazine_heap[self.id]._name)

(* [article for article in Article.all if article.magazine == self] *)
Magazine_articles(self) ==
    SelectSeq(Article_all, LAMBDA article : Article_heap[article.id]._magazine = self)

(* list(set(article.author for article in self.articles())) *)
Magazine_contributors(self) ==
    {List(l) : l \in list_of_set({Article_heap[article.id]._author :
                                      article \in Range(Magazine_articles(self))})}

Magazine_article_titles(self) ==
    LET articles == Magazine_articles(self)
    IN IF articles = <<>> THEN None
       ELSE List([i \in 1..Len(articles) |-> Article_heap[articles[i].id]._title])

(* author_counts after the loop has run over the first n articles. *)
RECURSIVE author_counts(_, _)
author_counts(articles, n) ==
    IF n = 0 THEN <<>>
    ELSE LET counts == author_counts(articles, n - 1)
             author == Article_heap[articles[n].id]._author
         IN dict_set(counts, author, dict_get(counts, author, 0) + 1)

(* Mutant: an author with 2 articles is kept. *)
Magazine_contributing_authorsFrom2(self) ==
    LET articles == Magazine_articles(self)
        counts == author_counts(articles, Len(articles))
        kept == SelectSeq(counts, LAMBDA item : item.value >= 2)
        result == [i \in 1..Len(kept) |-> kept[i].key]
    IN IF result # <<>> THEN List(result) ELSE None

Magazine_contributing_authors(self) ==
    LET articles == Magazine_articles(self)
        counts == author_counts(articles, Len(articles))
        kept == SelectSeq(counts, LAMBDA item : item.value > 2)
        result == [i \in 1..Len(kept) |-> kept[i].key]
    IN IF result # <<>> THEN List(result) ELSE None

(* magazine_counts after the loop has run over the first n articles. *)
RECURSIVE magazine_counts(_)
magazine_counts(n) ==
    IF n = 0 THEN <<>>
    ELSE LET counts == magazine_counts(n - 1)
             magazine == Article_heap[Article_all[n].id]._magazine
         IN dict_set(counts, magazine, dict_get(counts, magazine, 0) + 1)

Magazine_top_publisher ==
    IF Article_all = <<>> THEN None
    ELSE LET counts == magazine_counts(Len(Article_all))
         IN max_by_value(counts, Len(counts)).key

Init ==
    /\ Author_heap = <<>>
    /\ Magazine_heap = <<>>
    /\ Article_heap = <<>>
    /\ Article_all = <<>>
    /\ Magazine_all = <<>>
    /\ last = [op |-> "import", raised |-> FALSE]

Next ==
    \/ \E author \in AuthorArgs, magazine \in MagazineArgs, title \in TitleArgs :
           Article__init__(author, magazine, title) /\ NumObjects' <= MaxObjects
    \/ \E self \in ArticleRefs, value \in TitleArgs : Article_title_setter(self, value)
    \/ \E self \in ArticleRefs, value \in AuthorArgs : Article_author_setter(self, value)
    \/ \E self \in ArticleRefs, value \in MagazineArgs : Article_magazine_setter(self, value)
    \/ \E name \in AuthorNameArgs : Author__init__(name) /\ NumObjects' <= MaxObjects
    \/ \E self \in AuthorRefs, value \in AuthorNameArgs : Author_name_setter(self, value)
    \/ \E self \in AuthorRefs, magazine \in MagazineArgs, title \in TitleArgs :
           Author_add_article(self, magazine, title) /\ NumObjects' <= MaxObjects
    \/ \E name \in MagazineNameArgs, category \in CategoryArgs :
           Magazine__init__(name, category) /\ NumObjects' <= MaxObjects
    \/ \E self \in MagazineRefs, value \in MagazineNameArgs : Magazine_name_setter(self, value)
    \/ \E self \in MagazineRefs, value \in CategoryArgs : Magazine_category_setter(self, value)

Spec == Init /\ [][Next]_vars

NextGraph ==
    \/ \E author \in GraphAuthorArgs, magazine \in GraphMagazineArgs, title \in GraphTitleArgs :
           Article__init__(author, magazine, title) /\ NumObjects' <= MaxGraphObjects
    \/ \E self \in ArticleRefs, value \in GraphTitleArgs : Article_title_setter(self, value)
    \/ \E self \in ArticleRefs, value \in GraphAuthorArgs : Article_author_setter(self, value)
    \/ \E self \in ArticleRefs, value \in GraphMagazineArgs :
           Article_magazine_setter(self, value)
    \/ \E name \in GraphAuthorNameArgs : Author__init__(name) /\ NumObjects' <= MaxGraphObjects
    \/ \E self \in AuthorRefs, value \in GraphAuthorNameArgs : Author_name_setter(self, value)
    \/ \E self \in AuthorRefs, magazine \in GraphMagazineArgs, title \in GraphTitleArgs :
           Author_add_article(self, magazine, title) /\ NumObjects' <= MaxGraphObjects
    \/ \E name \in GraphMagazineNameArgs, category \in GraphCategoryArgs :
           Magazine__init__(name, category) /\ NumObjects' <= MaxGraphObjects
    \/ \E self \in MagazineRefs, value \in GraphMagazineNameArgs :
           Magazine_name_setter(self, value)
    \/ \E self \in MagazineRefs, value \in GraphCategoryArgs :
           Magazine_category_setter(self, value)

SpecGraph == Init /\ [][NextGraph]_vars

(***************************************************************************)
(* Claims                                                                  *)
(***************************************************************************)
IsStr(value, lo, hi) == value.type = "str" /\ Len(value.s) >= lo /\ Len(value.s) <= hi

NumArticlesOf(author, magazine) ==
    Cardinality({i \in 1..Len(Article_all) :
        /\ Article_heap[Article_all[i].id]._author = author
        /\ Article_heap[Article_all[i].id]._magazine = magazine})

NumArticlesIn(magazine) ==
    Cardinality({i \in 1..Len(Article_all) :
        Article_heap[Article_all[i].id]._magazine = magazine})

(* The step is a call of the method named op. *)
Called(op) == last'.op = op

(* C1: for every Author a, Magazine m and string title of length 5..50,    *)
(* a step Article(a, m, title), direct or through a.add_article(m, title), *)
(* raises nothing, appends one new entry at the end of Article.all with    *)
(* the earlier entries and their fields as they were, and the new entry is *)
(* in a.articles() and in m.articles() right after the step.               *)
C1_ConstructRegisters ==
    [][Called("Article.__init__")
       => \A a \in AuthorRefs, m \in MagazineRefs, t \in TitleArgs :
             (IsStr(t, 5, 50) /\ (Article__init__(a, m, t) \/ Author_add_article(a, m, t)))
             => /\ ~last'.raised
                /\ Len(Article_all') = Len(Article_all) + 1
                /\ SubSeq(Article_all', 1, Len(Article_all)) = Article_all
                /\ SubSeq(Article_heap', 1, Len(Article_heap)) = Article_heap
                /\ Article_all'[Len(Article_all')] \notin Range(Article_all)
                /\ Article_all'[Len(Article_all')] \in Range(Author_articles(a))'
                /\ Article_all'[Len(Article_all')] \in Range(Magazine_articles(m))'
                /\ Article_heap'[Article_all'[Len(Article_all')].id] =
                       [_author |-> a, _magazine |-> m, _title |-> t]]_vars

(* A second article, with a title of 50 characters, has just been          *)
(* constructed and is the last entry of its author's and its magazine's    *)
(* articles().                                                             *)
C1_Witness ==
    /\ last = [op |-> "Article.__init__", raised |-> FALSE]
    /\ Len(Article_all) = 2
    /\ LET new == Article_all[2]
           fields == Article_heap[new.id]
       IN /\ fields._title = S50
          /\ new \in Range(Author_articles(fields._author))
          /\ new \in Range(Magazine_articles(fields._magazine))

ArticleArgsInvalid(a, m, t) ==
    \/ a.type # "Author"
    \/ m.type # "Magazine"
    \/ t.type # "str"
    \/ ~IsStr(t, 5, 50)

(* C2: Article(author, magazine, title) raises whenever the author is not  *)
(* an Author, the magazine is not a Magazine, the title is not a string or *)
(* its length is outside 5..50, and then Article.all (and every article)   *)
(* is as before the call; titles of length 4 and 51 (S4, S51) raise,       *)
(* titles of length 5 and 50 (S5, S50) do not.                             *)
C2_ConstructRejects ==
    [][Called("Article.__init__")
       => /\ \/ last'.raised /\ Article_all' = Article_all /\ Article_heap' = Article_heap
             \/ \A a \in AuthorArgs, m \in MagazineArgs, t \in TitleArgs :
                   (ArticleArgsInvalid(a, m, t) \/ t \in {S4, S51})
                   => ~Article__init__(a, m, t)
          /\ \/ ~last'.raised /\ Len(Article_all') = Len(Article_all) + 1
             \/ \A a \in AuthorRefs, m \in MagazineRefs, t \in {S5, S50} :
                   ~Article__init__(a, m, t)]_vars

(* A construction has just raised while the registry holds an article. *)
C2_Witness ==
    /\ last = [op |-> "Article.__init__", raised |-> TRUE]
    /\ Len(Article_all) = 1
    /\ Len(Author_heap) = 1
    /\ Len(Magazine_heap) = 1

MagazineNameValid(value) == IsStr(value, 2, 16)

CategoryValid(value) == value.type = "str" /\ Len(value.s) >= 1

MagazineFieldsValid ==
    \A i \in 1..Len(Magazine_heap) :
        MagazineNameValid(Magazine_heap[i]._name) /\ CategoryValid(Magazine_heap[i]._category)

(* C4: every Magazine has, in every state, a string of length 2..16 as     *)
(* name and a non-empty string as category; a write of an invalid name or  *)
(* category raises nothing and keeps the magazine as it was, a write of a  *)
(* valid one replaces that field only; a construction with an invalid name *)
(* or category raises and creates and registers nothing.                   *)
C4_MagazineFields ==
    /\ []MagazineFieldsValid
    /\ [][/\ Called("Magazine.name.setter")
             => \A self \in MagazineRefs, value \in MagazineNameArgs :
                   Magazine_name_setter(self, value)
                   => /\ ~last'.raised
                      /\ Magazine_heap' =
                           IF MagazineNameValid(value)
                           THEN [Magazine_heap EXCEPT ![self.id]._name = value]
                           ELSE Magazine_heap
          /\ Called("Magazine.category.setter")
             => \A self \in MagazineRefs, value \in CategoryArgs :
                   Magazine_category_setter(self, value)
                   => /\ ~last'.raised
                      /\ Magazine_heap' =
                           IF CategoryValid(value)
                           THEN [Magazine_heap EXCEPT ![self.id]._category = value]
                           ELSE Magazine_heap
          /\ Called("Magazine.__init__")
             => \/ /\ last'.raised
                   /\ Magazine_heap' = Magazine_heap
                   /\ Magazine_all' = Magazine_all
                \/ \A name \in MagazineNameArgs, category \in CategoryArgs :
                      ~(MagazineNameValid(name) /\ CategoryValid(category))
                      => ~Magazine__init__(name, category)]_vars

(* magazine.name has just been written on a magazine whose name is the     *)
(* 16-character string, beside a magazine that has the 2-character one.    *)
C4_Witness ==
    /\ last = [op |-> "Magazine.name.setter", raised |-> FALSE]
    /\ Len(Magazine_heap) = 2
    /\ Magazine_heap[1]._name = S16
    /\ Magazine_heap[2]._name = S2

ArticleRefsValid ==
    \A i \in 1..Len(Article_all) :
        /\ Article_heap[Article_all[i].id]._author \in AuthorRefs
        /\ Article_heap[Article_all[i].id]._magazine \in MagazineRefs

(* C5: a write to article.author of a value that is not an Author, or to   *)
(* article.magazine of a value that is not a Magazine, raises and leaves   *)
(* every article as it was; a write of an instance of the right class      *)
(* raises nothing and replaces that reference only; in every state the     *)
(* author of every article of Article.all is an Author and its magazine a  *)
(* Magazine.                                                               *)
C5_ReferenceWrites ==
    /\ []ArticleRefsValid
    /\ [][/\ Called("Article.author.setter")
             => \A self \in ArticleRefs, value \in AuthorArgs :
                   Article_author_setter(self, value)
                   => IF value.type = "Author"
                      THEN /\ ~last'.raised
                           /\ Article_heap' = [Article_heap EXCEPT ![self.id]._author = value]
                      ELSE last'.raised /\ Article_heap' = Article_heap
          /\ Called("Article.magazine.setter")
             => \A self \in ArticleRefs, value \in MagazineArgs :
                   Article_magazine_setter(self, value)
                   => IF value.type = "Magazine"
                      THEN /\ ~last'.raised
                           /\ Article_heap' = [Article_heap EXCEPT ![self.id]._magazine = value]
                      ELSE last'.raised /\ Article_heap' = Article_heap]_vars

(* A write to article.author has just raised on an article whose author is *)
(* the second of two authors.                                              *)
C5_Witness ==
    /\ last = [op |-> "Article.author.setter", raised |-> TRUE]
    /\ Len(Article_all) = 1
    /\ Len(Author_heap) = 2
    /\ Article_heap[1]._author = Ref("Author", 2)

(* C6: Magazine.top_publisher() is None exactly when Article.all is empty; *)
(* otherwise it is a Magazine that no Magazine exceeds in the number of    *)
(* articles of Article.all whose magazine it currently is.                 *)
C6_TopPublisher ==
    /\ (Magazine_top_publisher = None) <=> (Article_all = <<>>)
    /\ Article_all # <<>>
       => /\ Magazine_top_publisher \in MagazineRefs
          /\ \A m \in MagazineRefs \cup Range(Magazine_all) :
                NumArticlesIn(Magazine_top_publisher) >= NumArticlesIn(m)

(* The first article of the registry is in a magazine with one article and *)
(* another magazine has two: top_publisher() is that other magazine.       *)
C6_Witness ==
    /\ Len(Article_all) = 3
    /\ \E m1, m2 \in MagazineRefs :
          /\ Article_heap[Article_all[1].id]._magazine = m1
          /\ NumArticlesIn(m1) = 1
          /\ NumArticlesIn(m2) = 2
          /\ Magazine_top_publisher = m2

(* C7: for every Magazine m, m.contributing_authors() is None when no      *)
(* author has more than 2 articles in m, and otherwise a list holding,     *)
(* each once, exactly the authors with more than 2 articles in m; only     *)
(* the articles of m count.                                                *)
C7_ContributingAuthors ==
    \A m \in MagazineRefs :
        LET result == Magazine_contributing_authors(m)
            expected == {a \in AuthorRefs : NumArticlesOf(a, m) > 2}
        IN IF expected = {}
           THEN result = None
           ELSE /\ result.type = "list"
                /\ Range(result.items) = expected
                /\ Len(result.items) = Cardinality(expected)

(* An author has exactly 3 articles in a magazine, whose                   *)
(* contributing_authors() is the list of that author alone, and none in a  *)
(* second magazine, whose contributing_authors() is None.                  *)
C7_Witness ==
    \E a \in AuthorRefs, m1, m2 \in MagazineRefs :
        /\ NumArticlesOf(a, m1) = 3
        /\ NumArticlesOf(a, m2) = 0
        /\ Magazine_contributing_authors(m1) = List(<<a>>)
        /\ Magazine_contributing_authors(m2) = None

(* C8: for every Author a, a.topic_areas() is None exactly when a has no   *)
(* article, and never an empty list; otherwise every result it can give is *)
(* a list holding, each once, exactly the current categories of the        *)
(* magazines of a's articles.                                              *)
C8_TopicAreas ==
    \A a \in AuthorRefs :
        LET mine == {i \in 1..Len(Article_all) : Article_heap[Article_all[i].id]._author = a}
            expected ==
                {Magazine_heap[Article_heap[Article_all[i].id]._magazine.id]._category : i \in mine}
        IN /\ Author_topic_areas(a) # {}
           /\ (None \in Author_topic_areas(a)) <=> (mine = {})
           /\ mine = {} => Author_topic_areas(a) = {None}
           /\ \A result \in Author_topic_areas(a) :
                 result # None
                 => /\ result.type = "list"
                    /\ result.items # <<>>
                    /\ Range(result.items) = expected
                    /\ Len(result.items) = Cardinality(expected)

(* An author has articles in two magazines of the same category: the       *)
(* category is listed once.  A second author has none and gets None.       *)
C8_Witness ==
    \E a, b \in AuthorRefs :
        /\ Author_topic_areas(a) = {List(<<S5>>)}
        /\ Cardinality({Article_heap[Article_all[i].id]._magazine :
               i \in {j \in 1..Len(Article_all) :
                         Article_heap[Article_all[j].id]._author = a}}) = 2
        /\ Author_topic_areas(b) = {None}

NoDuplicates(seq) == \A i, j \in 1..Len(seq) : seq[i] = seq[j] => i = j

AppendOnly(before, after) ==
    \/ after = before
    \/ /\ Len(after) = Len(before) + 1
       /\ SubSeq(after, 1, Len(before)) = before
       /\ after[Len(after)] \notin Range(before)

(* C9: Article.all and Magazine.all start empty; every step leaves each    *)
(* registry as it was or appends one entry, not yet in it, at its end;     *)
(* Article.all grows only in a construction of an Article that does not    *)
(* raise, and Magazine.all only in such a construction of a Magazine.      *)
C9_RegistriesAppendOnly ==
    /\ Article_all = <<>>
    /\ Magazine_all = <<>>
    /\ [](NoDuplicates(Article_all) /\ NoDuplicates(Magazine_all))
    /\ [][/\ AppendOnly(Article_all, Article_all')
          /\ AppendOnly(Magazine_all, Magazine_all')
          /\ Article_all' # Article_all
             => last' = [op |-> "Article.__init__", raised |-> FALSE]
          /\ Magazine_all' # Magazine_all
             => last' = [op |-> "Magazine.__init__", raised |-> FALSE]
          /\ last'.raised
             => Article_all' = Article_all /\ Magazine_all' = Magazine_all]_vars

(* Two magazines and an article are registered and the article's magazine  *)
(* has just been written.                                                  *)
C9_Witness ==
    /\ Len(Magazine_all) = 2
    /\ Len(Article_all) = 1
    /\ last = [op |-> "Article.magazine.setter", raised |-> FALSE]
    /\ Article_heap[1]._magazine = Ref("Magazine", 2)

RECURSIVE SumOfArticles(_)
SumOfArticles(n) ==
    IF n = 0 THEN 0 ELSE SumOfArticles(n - 1) + Len(Magazine_articles(Magazine_all[n]))

ArticlesPartitioned ==
    /\ \A article \in Range(Article_all) :
          /\ {x \in AuthorRefs : article \in Range(Author_articles(x))}
                = {Article_heap[article.id]._author}
          /\ {m \in MagazineRefs : article \in Range(Magazine_articles(m))}
                = {Article_heap[article.id]._magazine}
          /\ Article_heap[article.id]._author \in AuthorRefs
          /\ Article_heap[article.id]._magazine \in Range(Magazine_all)
    /\ SumOfArticles(Len(Magazine_all)) = Len(Article_all)

(* C10: in every state each article of Article.all is in x.articles() for  *)
(* exactly one Author x, its current author, and in m.articles() for       *)
(* exactly one Magazine m, its current magazine, which is in Magazine.all; *)
(* the lengths of m.articles() over Magazine.all add up to the length of   *)
(* Article.all; a write of another Author b to the author of an article of *)
(* a takes the article out of a.articles() and puts it into b.articles()   *)
(* and leaves Article.all as it was, and likewise for the magazine.        *)
C10_ArticlesPartitioned ==
    /\ []ArticlesPartitioned
    /\ [][/\ Called("Article.author.setter")
             => \A self \in ArticleRefs, a, b \in AuthorRefs :
                   (Article_heap[self.id]._author = a /\ a # b
                       /\ Article_author_setter(self, b))
                   => /\ self \notin Range(Author_articles(a))'
                      /\ self \in Range(Author_articles(b))'
                      /\ Article_all' = Article_all
          /\ Called("Article.magazine.setter")
             => \A self \in ArticleRefs, a, b \in MagazineRefs :
                   (Article_heap[self.id]._magazine = a /\ a # b
                       /\ Article_magazine_setter(self, b))
                   => /\ self \notin Range(Magazine_articles(a))'
                      /\ self \in Range(Magazine_articles(b))'
                      /\ Article_all' = Article_all]_vars

(* The author of the first of two articles has just been written: it is    *)
(* the second author, and the first author has the other article.          *)
C10_Witness ==
    /\ last = [op |-> "Article.author.setter", raised |-> FALSE]
    /\ Len(Article_all) = 2
    /\ Author_articles(Ref("Author", 2)) = <<Article_all[1]>>
    /\ Author_articles(Ref("Author", 1)) = <<Article_all[2]>>
    /\ Len(Magazine_all) = 2
====
